---- MODULE Spec2Model ----
(***************************************************************************)
(* Hybrid intrusion detection system: the rule engine (rules_engine.py),   *)
(* the anomaly scorer adapter (model_loader.py), the decision engine       *)
(* (decision_engine.py) and the traffic replay loop with its alert table   *)
(* (simulate_traffic.py).                                                  *)
(*                                                                         *)
(* Numbers.  Scores are fixed-point integers in units of 1/10000 (One is   *)
(* the score 1.0).  The model's raw decision value and the un-rounded      *)
(* fused score are in units of 1/100000.  Weights are in tenths.           *)
(* YAML values are strings; a key that is missing from a mapping is the    *)
(* string Absent and a YAML null (Python None) is the string YamlNull.     *)
(***************************************************************************)
EXTENDS Integers, Sequences, FiniteSets

VARIABLES
    phase,            \* "start", "running", "load_failed", "aborted", "finished"
    rules_source,     \* the content of rules.yaml on disk
    rules,            \* RulesEngine.rules
    config,           \* DecisionEngine.ml_weight / rule_weight / alert_threshold
    columns,          \* the columns of processed_features.csv (keys of every window)
    idx,              \* number of rows of the stream the loop has taken
    result,           \* {} or {r}: what the last engine.evaluate returned
    error,            \* the exception that left the last call, or "none"
    alerts,           \* rows of the alerts table, in insertion order
    seq,              \* sqlite AUTOINCREMENT counter of the alerts table
    executed          \* conditions that were handed to eval()

vars == <<phase, rules_source, rules, config, columns, idx, result, error,
          alerts, seq, executed>>

----------------------------------------------------------------------------
(* Bounds *)

MaxRules == 2
MaxWindows == 2

(* Representation *)

One == 10000
Absent == "<absent>"
YamlNull == "<null>"

Min(a, b) == IF a <= b THEN a ELSE b
Max(a, b) == IF a >= b THEN a ELSE b

\* round(x, n): x is given in units step times finer than the result.  A value
\* exactly half way between two results goes either way, depending on the
\* binary representation of the float.
Round(x, step) ==
    LET q == x \div step
        r == x % step
    IN  IF 2 * r < step THEN {q}
        ELSE IF 2 * r > step THEN {q + 1}
        ELSE {q, q + 1}

----------------------------------------------------------------------------
(* Inputs *)

Features == {"login_failures", "dns_requests_per_min"}
FeatureValues == {0, 100}

\* feature_metadata.json "feature_columns"
feature_order == <<"login_failures">>

\* decision_function outputs of the unsupervised model, in 1/100000
RawScores == {-20000, 20003, 90004, 120000}

Gt(f, t) == [kind |-> "gt", feature |-> f, threshold |-> t]
Call == [kind |-> "call", feature |-> Absent, threshold |-> 0]
NoCondition == [kind |-> Absent, feature |-> Absent, threshold |-> 0]

Rule(i, c, s) ==
    [isMap |-> TRUE, id |-> i, description |-> Absent, condition |-> c,
     severity |-> s]

\* a list item that is not a mapping, e.g. a plain string
NotAMapping ==
    [isMap |-> FALSE, id |-> Absent, description |-> Absent,
     condition |-> NoCondition, severity |-> Absent]

RuleCatalogue ==
    { Rule("brute_force", Gt("login_failures", 10), "high"),
      Rule("dns_tunnel", Gt("dns_requests_per_min", 50), "critical"),
      Rule("lockout", Gt("login_failures", 10), "CRITICAL"),
      Rule("brute_force", Gt("login_failures", 50), "bogus"),
      Rule("no_level", Gt("login_failures", 10), YamlNull),
      Rule("probe", Call, Absent),
      NotAMapping }

RECURSIVE SeqsUpTo(_, _)
SeqsUpTo(S, n) ==
    IF n = 0 THEN {<<>>}
    ELSE LET shorter == SeqsUpTo(S, n - 1)
         IN  shorter \cup {Append(s, x) : s \in {t \in shorter : Len(t) = n - 1}, x \in S}

RuleSources ==
    {[exists |-> TRUE, isList |-> TRUE, items |-> s] : s \in SeqsUpTo(RuleCatalogue, MaxRules)}
    \cup {[exists |-> FALSE, isList |-> FALSE, items |-> <<>>],
          [exists |-> TRUE, isList |-> FALSE, items |-> <<>>]}

DefaultConfig == [ml_weight |-> 6, rule_weight |-> 4, alert_threshold |-> 7000]

Configs ==
    { DefaultConfig,
      [ml_weight |-> 15, rule_weight |-> 5, alert_threshold |-> 7000],
      [ml_weight |-> 5, rule_weight |-> 5, alert_threshold |-> 4000] }

----------------------------------------------------------------------------
(* rules_engine.py *)

\* RulesEngine._load_rules: "ok" or the exception raised
load_rules(source) ==
    IF ~source.exists THEN "FileNotFoundError"
    ELSE IF ~source.isList THEN "ValueError"
    ELSE "ok"

\* RulesEngine._evaluate_condition: bool(eval(condition, {}, features))
evaluate_condition(condition, features) ==
    CASE condition.kind = "gt" ->
            IF condition.feature \in DOMAIN features
            THEN (IF features[condition.feature] > condition.threshold
                  THEN "true" ELSE "false")
            ELSE "NameError"
      [] condition.kind = "call" -> "true"
      [] OTHER -> "TypeError"

\* str.lower() on the labels of RuleCatalogue
Lower(s) ==
    CASE s = "CRITICAL" -> "critical"
      [] OTHER -> s

\* RulesEngine._severity_to_score, in 1/10000; -1 stands for the
\* AttributeError of None.lower()
severity_to_score(severity) ==
    IF severity = YamlNull THEN -1
    ELSE CASE Lower(severity) = "low" -> 2000
           [] Lower(severity) = "medium" -> 4000
           [] Lower(severity) = "high" -> 7000
           [] Lower(severity) = "critical" -> One
           [] OTHER -> 2000

\* rule.get(key, default)
Get(value, default) == IF value = Absent THEN default ELSE value

\* the dictionary appended to matched_rules
MatchedRule(rule) ==
    [rule_id |-> rule.id,
     description |-> Get(rule.description, ""),
     severity |-> Get(rule.severity, "low")]

\* one iteration of the for loop of RulesEngine.evaluate, on the accumulator
\* acc = [matched, total, raised, evald]
rule_step(acc, rule, features) ==
    IF ~rule.isMap
    THEN \* rule["condition"] raises TypeError; the handler's rule.get raises
         \* AttributeError, which leaves evaluate
         [acc EXCEPT !.raised = "AttributeError"]
    ELSE IF rule.condition.kind = Absent
    THEN acc    \* KeyError, printed
    ELSE LET seen == [acc EXCEPT !.evald = @ \cup {rule.condition}]
             c == evaluate_condition(rule.condition, features)
         IN  IF c # "true" THEN seen
             ELSE IF rule.id = Absent THEN seen    \* KeyError, printed
             ELSE LET listed == [seen EXCEPT !.matched = Append(@, MatchedRule(rule))]
                      s == severity_to_score(Get(rule.severity, "low"))
                  IN  IF s < 0 THEN listed    \* AttributeError, printed
                      ELSE [listed EXCEPT !.total = @ + s]

RECURSIVE rule_loop(_, _, _)
rule_loop(acc, rs, features) ==
    IF rs = <<>> \/ acc.raised # "none" THEN acc
    ELSE rule_loop(rule_step(acc, Head(rs), features), Tail(rs), features)

\* the rule_score returned: round(min(total, 1.0), 3)
rule_score_of(total) ==
    LET clipped == Min(total, One)
    IN  10 * (CHOOSE q \in Round(clipped, 10) : TRUE)

\* RulesEngine.evaluate
RulesEngine_evaluate(rs, features) ==
    LET acc == rule_loop([matched |-> <<>>, total |-> 0, raised |-> "none",
                          evald |-> {}], rs, features)
    IN  [raised |-> acc.raised,
         matched_rules |-> acc.matched,
         rule_score |-> rule_score_of(acc.total),
         evald |-> acc.evald]

----------------------------------------------------------------------------
(* model_loader.py *)

\* a missing feature is silently defaulted instead of raising
prepare_features_defaulting(features) == TRUE

\* ModelLoader.prepare_features: TRUE when every feature of feature_order is a
\* key of the window; otherwise ValueError is raised
prepare_features(features) ==
    \A i \in 1..Len(feature_order) : feature_order[i] \in DOMAIN features

\* ModelLoader.predict: the possible anomaly_score values for a raw decision value
predict(raw) ==
    LET clipped == Max(0, Min(10 * One - raw, 10 * One))
    IN  Round(clipped, 10)

----------------------------------------------------------------------------
(* decision_engine.py *)

\* the thresholds compared strictly
determine_severity_strict(final_score, matched_rules) ==
    IF \E i \in 1..Len(matched_rules) : matched_rules[i].severity = "critical"
    THEN "critical"
    ELSE IF final_score > 9000 THEN "critical"
    ELSE IF final_score > 7500 THEN "high"
    ELSE IF final_score > 5000 THEN "medium"
    ELSE "low"

\* DecisionEngine._determine_severity
determine_severity(final_score, matched_rules) ==
    IF \E i \in 1..Len(matched_rules) : matched_rules[i].severity = "critical"
    THEN "critical"
    ELSE IF final_score >= 9000 THEN "critical"
    ELSE IF final_score >= 7500 THEN "high"
    ELSE IF final_score >= 5000 THEN "medium"
    ELSE "low"

\* the fused score: round(ml_weight * ml_score + rule_weight * rule_score, 4)
fuse(cfg, ml_score, rule_score) ==
    Round(cfg.ml_weight * ml_score + cfg.rule_weight * rule_score, 10)

is_intrusion_of(cfg, final_score) == final_score >= cfg.alert_threshold

\* DecisionEngine.evaluate: the possible outcomes
\* [raised, returned (a set of at most one result), evald]
DecisionEngine_evaluate(cfg, rs, features, raw) ==
    IF ~prepare_features(features)
    THEN {[raised |-> "ValueError", returned |-> {}, evald |-> {}]}
    ELSE LET rr == RulesEngine_evaluate(rs, features)
         IN  IF rr.raised # "none"
             THEN {[raised |-> rr.raised, returned |-> {}, evald |-> rr.evald]}
             ELSE UNION {
                    {[raised |-> "none",
                      returned |-> {[ml_score |-> ml,
                                     rule_score |-> rr.rule_score,
                                     final_score |-> fs,
                                     is_intrusion |-> is_intrusion_of(cfg, fs),
                                     severity |-> determine_severity(fs, rr.matched_rules),
                                     matched_rules |-> rr.matched_rules]},
                      evald |-> rr.evald]
                     : fs \in fuse(cfg, ml, rr.rule_score)}
                    : ml \in predict(raw)}

----------------------------------------------------------------------------
(* simulate_traffic.py *)

RECURSIVE rule_ids(_)
rule_ids(matched_rules) ==
    IF matched_rules = <<>> THEN <<>>
    ELSE <<Head(matched_rules).rule_id>> \o rule_ids(Tail(matched_rules))

\* the row save_alert inserts; timestamp is the logical time of the insertion
alert_row(r, id, now) ==
    [id |-> id, timestamp |-> now, ml_score |-> r.ml_score,
     rule_score |-> r.rule_score, final_score |-> r.final_score,
     severity |-> r.severity, matched_rules |-> rule_ids(r.matched_rules)]

\* every result is saved
should_save_always(r) == TRUE

\* the test of the replay loop that guards save_alert
should_save(r) == r.is_intrusion

Init ==
    /\ phase = "start"
    /\ rules_source \in RuleSources
    /\ rules = <<>>
    /\ config \in Configs
    /\ columns \in (SUBSET Features) \ {{}}
    /\ idx = 0
    /\ result = {}
    /\ error = "none"
    /\ alerts = <<>>
    /\ seq = 0
    /\ executed = {}

\* init_db, read_csv and get_decision_engine: RulesEngine() loads the rules
get_decision_engine ==
    /\ phase = "start"
    /\ LET loaded == load_rules(rules_source)
       IN  IF loaded = "ok"
           THEN /\ rules' = rules_source.items
                /\ phase' = "running"
                /\ error' = "none"
           ELSE /\ rules' = rules
                /\ phase' = "load_failed"
                /\ error' = loaded
    /\ UNCHANGED <<rules_source, config, columns, idx, result, alerts, seq, executed>>

\* one iteration of the for loop of simulate
simulate_row ==
    /\ phase = "running"
    /\ idx < MaxWindows
    /\ \E features \in [columns -> FeatureValues], raw \in RawScores :
         \E out \in DecisionEngine_evaluate(config, rules, features, raw) :
            /\ idx' = idx + 1
            /\ executed' = executed \cup out.evald
            /\ error' = out.raised
            /\ result' = out.returned
            /\ IF out.raised # "none"
               THEN /\ phase' = "aborted"
                    /\ UNCHANGED <<alerts, seq>>
               ELSE /\ phase' = phase
                    /\ LET r == CHOOSE x \in out.returned : TRUE
                       IN  IF should_save(r)
                           THEN /\ seq' = seq + 1
                                /\ alerts' = Append(alerts, alert_row(r, seq + 1, idx + 1))
                           ELSE UNCHANGED <<alerts, seq>>
    /\ UNCHANGED <<rules_source, rules, config, columns>>

\* the data frame is exhausted
simulate_end ==
    /\ phase = "running"
    /\ phase' = "finished"
    /\ UNCHANGED <<rules_source, rules, config, columns, idx, result, error,
                   alerts, seq, executed>>

Next == get_decision_engine \/ simulate_row \/ simulate_end

Spec == Init /\ [][Next]_vars

----------------------------------------------------------------------------
(* Properties *)

Loaded == phase \in {"running", "aborted", "finished"}

\* the scorer's required features are all columns of the stream
ScorerAccepts == \A i \in 1..Len(feature_order) : feature_order[i] \in columns

NoCriticalMatch(r) ==
    \A i \in 1..Len(r.matched_rules) : r.matched_rules[i].severity # "critical"

\* the weight the severity table gives a listed label, read without regard to
\* case; an absent or unrecognized label counts as low
TableWeight(label) ==
    CASE Lower(label) = "critical" -> One
      [] Lower(label) = "high" -> 7000
      [] Lower(label) = "medium" -> 4000
      [] OTHER -> 2000

RECURSIVE SumWeights(_)
SumWeights(matched_rules) ==
    IF matched_rules = <<>> THEN 0
    ELSE TableWeight(Head(matched_rules).severity) + SumWeights(Tail(matched_rules))

\* C1: every returned result has ml_score, rule_score and final_score in
\* [0,1], for every configured pair of weights.
C1_ScoresInUnitInterval ==
    \A r \in result :
        /\ 0 <= r.ml_score /\ r.ml_score <= One
        /\ 0 <= r.rule_score /\ r.rule_score <= One
        /\ 0 <= r.final_score /\ r.final_score <= One

\* C2: the returned rule_score is min(sum of the table weights of exactly the
\* rules listed in matched_rules, 1.0).
C2_RuleScoreIsClippedSum ==
    \A r \in result : r.rule_score = Min(SumWeights(r.matched_rules), One)

\* C3: a result whose window matched a rule that was scored with the critical
\* weight 1.0 has severity critical, whatever its final_score.
C3_CriticalRuleForcesCritical ==
    \A r \in result :
        (\E i \in 1..Len(r.matched_rules) :
            severity_to_score(r.matched_rules[i].severity) = One)
        => r.severity = "critical"

\* C4: a rule record that fails at evaluation time is skipped: whenever the
\* scorer accepts the window, evaluating an accepted rule set returns a result.
C4_RuleFailureIsIsolated ==
    (Loaded /\ idx > 0 /\ ScorerAccepts) => (result # {} /\ error = "none")

\* C5: in every successfully loaded rule set the ids are pairwise distinct.
C5_LoadedIdsDistinct ==
    Loaded =>
        \A i, j \in 1..Len(rules) :
            (i # j /\ rules[i].isMap /\ rules[j].isMap /\ rules[i].id # Absent)
            => rules[i].id # rules[j].id

\* C6: a loaded rule set holds no condition outside the predicate grammar (a
\* call), and no such condition is ever executed by evaluate.
C6_OnlyGrammarConditions ==
    /\ Loaded => \A i \in 1..Len(rules) : rules[i].condition.kind # "call"
    /\ \A c \in executed : c.kind # "call"

\* C7: when a feature the scorer requires is absent from the window, evaluate
\* returns no result, the ValueError leaves the loop, and no alert is recorded.
C7_ScorerFailurePropagates ==
    (~ScorerAccepts /\ idx > 0) =>
        /\ result = {}
        /\ error = "ValueError"
        /\ phase = "aborted"
        /\ alerts = <<>> /\ seq = 0

C7_Witness ==
    /\ "login_failures" \notin columns
    /\ idx = 1
    /\ error = "ValueError"
    /\ Len(rules) > 0

\* C8: a window's result is recorded iff is_intrusion (final_score >=
\* alert_threshold), once, and rows are written in evaluation order with
\* increasing identifiers.
C8_AlertsFollowIntrusions ==
    /\ \A i \in 1..Len(alerts) : alerts[i].final_score >= config.alert_threshold
    /\ \A i, j \in 1..Len(alerts) :
           i < j => /\ alerts[i].id < alerts[j].id
                    /\ alerts[i].timestamp < alerts[j].timestamp
    /\ \A i \in 1..Len(alerts) : alerts[i].timestamp \in 1..idx
    /\ \A r \in result :
           /\ r.is_intrusion <=> r.final_score >= config.alert_threshold
           /\ r.is_intrusion <=>
                  /\ alerts # <<>>
                  /\ alerts[Len(alerts)].timestamp = idx
                  /\ alerts[Len(alerts)].final_score = r.final_score
                  /\ alerts[Len(alerts)].severity = r.severity

C8_Witness ==
    /\ idx = 2
    /\ Len(alerts) = 1
    /\ alerts[1].timestamp = 1
    /\ \E r \in result : ~r.is_intrusion

\* C9: every severity reported in matched_rules is one of the four recognized
\* labels, and a rule whose label is absent or unrecognized is reported as low
\* and weighs 0.2.
C9_UnrecognizedSeverityIsLow ==
    \A r \in result :
        \A i \in 1..Len(r.matched_rules) :
            r.matched_rules[i].severity \in {"low", "medium", "high", "critical"}

\* C10: when no matched rule has severity critical, severity follows
\* final_score through the fixed thresholds 0.9, 0.75 and 0.5, whatever the
\* alert threshold is.
C10_SeverityByThresholds ==
    \A r \in result :
        NoCriticalMatch(r) =>
            /\ r.severity = "critical" <=> r.final_score >= 9000
            /\ r.severity = "high" <=> (7500 <= r.final_score /\ r.final_score < 9000)
            /\ r.severity = "medium" <=> (5000 <= r.final_score /\ r.final_score < 7500)
            /\ r.severity = "low" <=> r.final_score < 5000

C10_Witness ==
    \E r \in result :
        /\ NoCriticalMatch(r)
        /\ r.final_score = 5000
        /\ r.severity = "medium"
        /\ r.is_intrusion

====
